---- MODULE Spec2Model ----
(***************************************************************************)
(* Model of src-tauri/src/main.rs: the four Tauri commands                 *)
(* get_chat_history, generate_ai_response, get_performance_data and        *)
(* get_active_ai_queries, with the process environment (HF_TOKEN) and the  *)
(* upstream inference API as the environment of the handlers.              *)
(*                                                                         *)
(* Text is modelled as a sequence of pieces: format!("a {} b", x) is the   *)
(* concatenation <<"a ", x, " b">>.  A JSON value (serde_json::Value) is a *)
(* tagged record.  An f32 quotient is an exact fraction num/den, or one of *)
(* the IEEE results nan / inf when the divisor is 0.                       *)
(***************************************************************************)
EXTENDS Integers, Sequences, FiniteSets, TLC

\* Concurrent invocations of generate_ai_response the async runtime holds.
Tasks == {1, 2}

\* Messages the UI passes to generate_ai_response.
Messages == {"hi", "yo"}

\* Largest memory counter (used, total) the OS reports in the model.
MaxMem == 3

\* ---------------------------------------------------------------- environment

\* HF_TOKEN in the process environment: not there, there but not valid
\* Unicode, or there with a text (a sequence of characters).
Absent == [state |-> "absent", val |-> <<>>]
NotUnicode == [state |-> "not_unicode", val |-> <<>>]
Present(tok) == [state |-> "set", val |-> tok]

\* Token texts.  TokBad holds a line feed, which the environment may hold
\* and an HTTP header value may not.
TokA == <<"t", "A">>
TokB == <<"t", "B">>
TokBad == <<"t", "\n", "X">>
Tokens == {TokA, TokB, TokBad}
EnvValues == {Absent, NotUnicode} \cup {Present(tok) : tok \in Tokens}

\* ---------------------------------------------------------------- results

\* Result<String, String>: Ok(text) or Err(description).
Ok(v) == [ok |-> TRUE, val |-> v, err |-> <<>>]
Err(e) == [ok |-> FALSE, val |-> "", err |-> e]
NoResult == [ok |-> FALSE, val |-> "", err |-> <<>>]

\* A text holds a piece.
Contains(text, piece) == \E k \in 1..Len(text) : text[k] = piece

\* ---------------------------------------------------------------- JSON values

Null == [t |-> "null"]
Str(s) == [t |-> "str", s |-> s]
Num(n) == [t |-> "num", n |-> n]
Arr(a) == [t |-> "arr", a |-> a]
Obj(o) == [t |-> "obj", o |-> o]

\* A variant of IndexNum that takes the last element of the array.
IndexNumLast(v, k) ==
    IF v.t = "arr" /\ Len(v.a) > 0 THEN v.a[Len(v.a)] ELSE Null

\* impl Index for usize: an array element, Null for anything else.
IndexNum(v, k) ==
    IF v.t = "arr" /\ k + 1 <= Len(v.a) THEN v.a[k + 1] ELSE Null

\* impl Index for str: an object member, Null for anything else.
IndexKey(v, key) ==
    IF v.t = "obj" /\ key \in DOMAIN v.o THEN v.o[key] ELSE Null

\* Value::as_str: Some(s) for a string, None otherwise.
IsStr(v) == v.t = "str"


\* ---------------------------------------------------------------- upstream

\* Response bodies the upstream may send, as text.
BodyHello == "[{\"generated_text\":\"hello\"}]"
BodyExtra == "[{\"generated_text\":\"hello\",\"score\":1},{\"generated_text\":\"other\"}]"
BodyMissing == "[{}]"
BodyEmptyArray == "[]"
BodyObject == "{\"generated_text\":\"hello\"}"
BodyNonString == "[{\"generated_text\":5}]"
BodySecond == "[{},{\"generated_text\":\"other\"}]"
BodyBoom == "boom"
Bodies ==
    {BodyHello, BodyExtra, BodyMissing, BodyEmptyArray, BodyObject,
     BodyNonString, BodySecond, BodyBoom}

Invalid == [t |-> "invalid"]

\* serde_json's reading of a body text (Response::json): the Value it
\* denotes, or Invalid when the text is not JSON.
ParseJson(text) ==
    CASE text = BodyHello -> Arr(<<Obj([generated_text |-> Str("hello")])>>)
      [] text = BodyExtra ->
            Arr(<<Obj([generated_text |-> Str("hello"), score |-> Num(1)]),
                  Obj([generated_text |-> Str("other")])>>)
      [] text = BodyMissing -> Arr(<<Obj(<<>>)>>)
      [] text = BodyEmptyArray -> Arr(<<>>)
      [] text = BodyObject -> Obj([generated_text |-> Str("hello")])
      [] text = BodyNonString -> Arr(<<Obj([generated_text |-> Num(5)])>>)
      [] text = BodySecond ->
            Arr(<<Obj(<<>>), Obj([generated_text |-> Str("other")])>>)
      [] OTHER -> Invalid

\* HTTP statuses the upstream may answer with.
Statuses == {200, 201, 404, 500}

\* StatusCode::is_success: 200..=299.
IsSuccess(st) == 200 <= st /\ st < 300

\* impl Display for StatusCode: the code and its canonical reason.
StatusText(st) ==
    CASE st = 200 -> "200 OK"
      [] st = 201 -> "201 Created"
      [] st = 404 -> "404 Not Found"
      [] st = 500 -> "500 Internal Server Error"
      [] OTHER -> "<unknown status code>"

\* A response: its status, its body text, and whether the body can be read
\* to its end (the connection may break while the body streams in).
NoResp == [status |-> 0, body |-> "", readable |-> FALSE]
Response(st, b) == [status |-> st, body |-> b, readable |-> TRUE]
Unreadable(st) == [status |-> st, body |-> "", readable |-> FALSE]
Responses ==
    {Response(200, b) : b \in Bodies}
    \cup {Response(500, b) : b \in {BodyHello, BodyBoom}}
    \cup {Response(201, BodyHello), Response(404, BodyBoom)}
    \cup {Unreadable(200), Unreadable(500)}

\* What the upstream did with one request.
NoOutcome == [kind |-> "none", resp |-> NoResp]
TransportError == [kind |-> "transport", resp |-> NoResp]
Answered(r) == [kind |-> "response", resp |-> r]

\* ---------------------------------------------------------------- handler steps

\* std::env::var: the value, or VarError's description.
VarErrorText(e) ==
    IF e.state = "absent" THEN "environment variable not found"
    ELSE "environment variable was not valid unicode"

\* Line 23: the error a missing token maps to.
ConfigError(e) == Err(<<"HF_TOKEN not set: ", VarErrorText(e)>>)

\* Line 26: format!("Bearer {}", hf_token).
BearerValue(tok) == <<"Bearer ">> \o tok

\* Characters HeaderValue::from_str rejects (control characters).
ControlChars == {"\n", "\r"}

\* Line 26: .parse() of the header value succeeds.
HeaderValueParses(text) == \A k \in 1..Len(text) : text[k] \notin ControlChars

\* Lines 28-30: the JSON payload.
Payload(m) == [inputs |-> m]

ApiUrl == "https://api-inference.huggingface.co/models/gpt2"

NoRequest == [url |-> "", auth |-> <<>>, json |-> Payload("")]
Request(tok, m) == [url |-> ApiUrl, auth |-> BearerValue(tok), json |-> Payload(m)]

\* Line 37: a transport failure of send().
SendError == Err(<<"Failed to send request to Hugging Face API: ", "error sending request">>)

\* A variant of SuccessBranch that looks for the text in every element.
SuccessBranchScan(r) ==
    IF ~r.readable
    THEN Err(<<"Failed to parse response JSON: ", "error reading response body">>)
    ELSE LET response_json == ParseJson(r.body) IN
         IF response_json.t = "invalid"
         THEN Err(<<"Failed to parse response JSON: ", "error decoding response body">>)
         ELSE IF response_json.t = "arr"
                 /\ \E k \in 1..Len(response_json.a) :
                        IsStr(IndexKey(response_json.a[k], "generated_text"))
              THEN LET k == CHOOSE k \in 1..Len(response_json.a) :
                                IsStr(IndexKey(response_json.a[k], "generated_text")) IN
                   Ok(IndexKey(response_json.a[k], "generated_text").s)
              ELSE Err(<<"Generated text not found in response.">>)

\* Lines 40-46: the success branch.
SuccessBranch(r) ==
    IF ~r.readable
    THEN Err(<<"Failed to parse response JSON: ", "error reading response body">>)
    ELSE LET response_json == ParseJson(r.body) IN
         IF response_json.t = "invalid"
         THEN Err(<<"Failed to parse response JSON: ", "error decoding response body">>)
         ELSE LET generated_text ==
                      IndexKey(IndexNum(response_json, 0), "generated_text") IN
              IF IsStr(generated_text)
              THEN Ok(generated_text.s)
              ELSE Err(<<"Generated text not found in response.">>)

\* Lines 48-50: the non-success branch.
ErrorBranch(r) ==
    IF ~r.readable
    THEN Err(<<"Failed to get error text: ", "error reading response body">>)
    ELSE Err(<<"Hugging Face API error: ", StatusText(r.status), " - ", r.body>>)

\* A variant of HandleResponse that does not branch on the status.
HandleResponseAnyStatus(r) == SuccessBranch(r)

\* Lines 39-51: what the handler returns for a response.
HandleResponse(r) == IF IsSuccess(r.status) THEN SuccessBranch(r) ELSE ErrorBranch(r)

\* ---------------------------------------------------------------- state

VARIABLES
    env,        \* HF_TOKEN in the process environment
    pc,         \* pc[i]: where invocation i of generate_ai_response is
    message,    \* message[i]: its argument
    hf_token,   \* hf_token[i]: its local hf_token
    request,    \* request[i]: its request in flight
    sent,       \* sent[i]: requests it has sent
    res,        \* res[i]: the response it received
    result,     \* result[i]: what it returned
    envRead,    \* envRead[i]: the environment's HF_TOKEN when it read it
    upstream,   \* upstream[i]: what the upstream did with its request
    sys,        \* the System snapshot of the last get_performance_data
    reply       \* what the last of the other three commands returned

vars ==
    <<env, pc, message, hf_token, request, sent, res, result, envRead,
      upstream, sys, reply>>

Unread == [state |-> "unread", val |-> <<>>]
NoSystem == [cpu |-> 0, used_memory |-> 0, total_memory |-> 1]
NoReply ==
    [cmd |-> "none", ok |-> TRUE, history |-> <<>>, count |-> 0,
     cpu_usage |-> 0, memory_usage |-> [kind |-> "num", num |-> 0, den |-> 1]]

Init ==
    /\ env \in EnvValues
    /\ pc = [i \in Tasks |-> "idle"]
    /\ message = [i \in Tasks |-> ""]
    /\ hf_token = [i \in Tasks |-> <<>>]
    /\ request = [i \in Tasks |-> NoRequest]
    /\ sent = [i \in Tasks |-> 0]
    /\ res = [i \in Tasks |-> NoResp]
    /\ result = [i \in Tasks |-> NoResult]
    /\ envRead = [i \in Tasks |-> Unread]
    /\ upstream = [i \in Tasks |-> NoOutcome]
    /\ sys = NoSystem
    /\ reply = NoReply

\* The process environment changes (std::env is process-wide and mutable).
EnvChanged(v) ==
    /\ v # env
    /\ env' = v
    /\ UNCHANGED <<pc, message, hf_token, request, sent, res, result, envRead,
                   upstream, sys, reply>>

\* Line 20: the dispatcher starts an invocation with message m.
Invoke(i, m) ==
    /\ pc[i] = "idle"
    /\ pc' = [pc EXCEPT ![i] = "start"]
    /\ message' = [message EXCEPT ![i] = m]
    /\ UNCHANGED <<env, hf_token, request, sent, res, result, envRead,
                   upstream, sys, reply>>

\* A variant of ReadEnv that reuses a token another invocation holds.
ReadEnvCached(i) ==
    IF \E j \in Tasks : hf_token[j] # <<>>
    THEN Present(hf_token[CHOOSE j \in Tasks : hf_token[j] # <<>>])
    ELSE env

\* Line 23: what std::env::var("HF_TOKEN") gives invocation i.
ReadEnv(i) == env

\* A variant of ReadToken that goes on with an empty token when there is none.
ReadTokenUnchecked(i) ==
    /\ pc[i] = "start"
    /\ envRead' = [envRead EXCEPT ![i] = env]
    /\ hf_token' = [hf_token EXCEPT ![i] = ReadEnv(i).val]
    /\ pc' = [pc EXCEPT ![i] = "build"]
    /\ UNCHANGED <<env, message, request, sent, res, result, upstream, sys, reply>>

\* Lines 21-23: read the token; `?` returns the error when it is not there.
ReadToken(i) ==
    /\ pc[i] = "start"
    /\ envRead' = [envRead EXCEPT ![i] = env]
    /\ IF ReadEnv(i).state = "set"
       THEN /\ hf_token' = [hf_token EXCEPT ![i] = ReadEnv(i).val]
            /\ pc' = [pc EXCEPT ![i] = "build"]
            /\ UNCHANGED result
       ELSE /\ result' = [result EXCEPT ![i] = ConfigError(ReadEnv(i))]
            /\ pc' = [pc EXCEPT ![i] = "done"]
            /\ UNCHANGED hf_token
    /\ UNCHANGED <<env, message, request, sent, res, upstream, sys, reply>>

\* Lines 25-30: build the headers; .unwrap() panics when the value does not
\* parse as a header value.
BuildHeaders(i) ==
    /\ pc[i] = "build"
    /\ pc' = [pc EXCEPT ![i] =
                 IF HeaderValueParses(BearerValue(hf_token[i]))
                 THEN "send" ELSE "panicked"]
    /\ UNCHANGED <<env, message, hf_token, request, sent, res, result,
                   envRead, upstream, sys, reply>>

\* Lines 32-36: post the request and await the answer.
Send(i) ==
    /\ pc[i] = "send"
    /\ request' = [request EXCEPT ![i] = Request(hf_token[i], message[i])]
    /\ sent' = [sent EXCEPT ![i] = sent[i] + 1]
    /\ pc' = [pc EXCEPT ![i] = "await"]
    /\ UNCHANGED <<env, message, hf_token, res, result, envRead, upstream, sys, reply>>

\* A variant of TransportFail that sends the request again.
TransportFailRetry(i) ==
    /\ pc[i] = "await"
    /\ sent[i] < 3
    /\ upstream' = [upstream EXCEPT ![i] = TransportError]
    /\ request' = [request EXCEPT ![i] = NoRequest]
    /\ pc' = [pc EXCEPT ![i] = "send"]
    /\ UNCHANGED <<env, message, hf_token, sent, res, result, envRead, sys, reply>>

\* Line 37: send() fails (DNS, connection, TLS, timeout); `?` returns the error.
TransportFail(i) ==
    /\ pc[i] = "await"
    /\ upstream' = [upstream EXCEPT ![i] = TransportError]
    /\ request' = [request EXCEPT ![i] = NoRequest]
    /\ result' = [result EXCEPT ![i] = SendError]
    /\ pc' = [pc EXCEPT ![i] = "done"]
    /\ UNCHANGED <<env, message, hf_token, sent, res, envRead, sys, reply>>

\* A variant of Receiver that hands the response to another waiting invocation.
ReceiverAny(i) ==
    IF \E j \in Tasks : j # i /\ pc[j] = "await"
    THEN CHOOSE j \in Tasks : j # i /\ pc[j] = "await"
    ELSE i

\* Lines 32-36: the invocation whose send() future a response to
\* invocation i's request completes.
Receiver(i) == i

\* Lines 32-36: the upstream answers invocation i's request with r.
Respond(i, r) ==
    /\ pc[i] = "await"
    /\ pc[Receiver(i)] = "await"
    /\ upstream' = [upstream EXCEPT ![i] = Answered(r)]
    /\ request' = [request EXCEPT ![i] = NoRequest]
    /\ res' = [res EXCEPT ![Receiver(i)] = r]
    /\ pc' = [pc EXCEPT ![Receiver(i)] = "responded"]
    /\ UNCHANGED <<env, message, hf_token, sent, result, envRead, sys, reply>>

\* Lines 39-51: branch on the status, read the body, return.
Complete(i) ==
    /\ pc[i] = "responded"
    /\ result' = [result EXCEPT ![i] = HandleResponse(res[i])]
    /\ pc' = [pc EXCEPT ![i] = "done"]
    /\ UNCHANGED <<env, message, hf_token, request, sent, res, envRead,
                   upstream, sys, reply>>

\* Line 52: the invocation is over (returned, or unwound by the panic) and
\* its locals are dropped.
Finish(i) ==
    /\ pc[i] \in {"done", "panicked"}
    /\ pc' = [pc EXCEPT ![i] = "idle"]
    /\ message' = [message EXCEPT ![i] = ""]
    /\ hf_token' = [hf_token EXCEPT ![i] = <<>>]
    /\ request' = [request EXCEPT ![i] = NoRequest]
    /\ sent' = [sent EXCEPT ![i] = 0]
    /\ res' = [res EXCEPT ![i] = NoResp]
    /\ result' = [result EXCEPT ![i] = NoResult]
    /\ envRead' = [envRead EXCEPT ![i] = Unread]
    /\ upstream' = [upstream EXCEPT ![i] = NoOutcome]
    /\ UNCHANGED <<env, sys, reply>>

\* ---------------------------------------------------------------- other commands

\* A variant of ChatHistory that keeps the message of the running invocation.
ChatHistoryKept == IF message[1] # "" THEN <<message[1]>> ELSE <<>>

\* Line 16: vec![].
ChatHistory == <<>>

\* Lines 14-17.
GetChatHistory ==
    /\ reply' = [NoReply EXCEPT !.cmd = "get_chat_history", !.history = ChatHistory]
    /\ UNCHANGED <<env, pc, message, hf_token, request, sent, res, result,
                   envRead, upstream, sys>>

\* Line 78: the dummy value.
ActiveQueries == 5

\* Lines 75-79.
GetActiveAiQueries ==
    /\ reply' = [NoReply EXCEPT !.cmd = "get_active_ai_queries", !.count = ActiveQueries]
    /\ UNCHANGED <<env, pc, message, hf_token, request, sent, res, result,
                   envRead, upstream, sys>>

\* CPU usages sysinfo reports, in percent.
CpuReadings == {0, 50, 100}

\* Memory counters sysinfo reports: used never exceeds total, and total is 0
\* where the platform's counters cannot be read.
MemReadings ==
    {m \in [used_memory : 0..MaxMem, total_memory : 0..MaxMem] :
        m.used_memory <= m.total_memory}

\* f32 division: a fraction, or IEEE's NaN (0/0) and infinity (x/0).
F32Div(a, b) ==
    IF b # 0 THEN [kind |-> "num", num |-> a, den |-> b]
    ELSE IF a = 0 THEN [kind |-> "nan", num |-> 0, den |-> 0]
    ELSE [kind |-> "inf", num |-> 1, den |-> 0]

\* f32 multiplication by a finite positive number; NaN and infinity stay.
F32Mul(x, k) == IF x.kind = "num" THEN [x EXCEPT !.num = x.num * k] ELSE x

\* Line 67.
MemoryUsage(s) == F32Mul(F32Div(s.used_memory, s.total_memory), 100)

\* Lines 60-73: a new System, refreshed; the two readings; Ok.
GetPerformanceData(cpu, mem) ==
    /\ sys' = [cpu |-> cpu, used_memory |-> mem.used_memory,
               total_memory |-> mem.total_memory]
    /\ reply' = [NoReply EXCEPT !.cmd = "get_performance_data",
                                !.cpu_usage = sys'.cpu,
                                !.memory_usage = MemoryUsage(sys')]
    /\ UNCHANGED <<env, pc, message, hf_token, request, sent, res, result,
                   envRead, upstream>>

\* ---------------------------------------------------------------- specifications

\* Steps of the invocations of generate_ai_response among T.
InferenceOf(T) ==
    \/ \E i \in T, m \in Messages : Invoke(i, m)
    \/ \E i \in T : ReadToken(i)
    \/ \E i \in T : BuildHeaders(i)
    \/ \E i \in T : Send(i)
    \/ \E i \in T : TransportFail(i)
    \/ \E i \in T, r \in Responses : Respond(i, r)
    \/ \E i \in T : Complete(i)
    \/ \E i \in T : Finish(i)

\* Concurrent invocations of generate_ai_response, the process environment
\* and the two stub commands.
Next ==
    \/ \E v \in EnvValues : EnvChanged(v)
    \/ InferenceOf(Tasks)
    \/ GetChatHistory
    \/ GetActiveAiQueries

Spec == Init /\ [][Next]_vars

\* All four commands, one invocation of generate_ai_response at a time.
NextCommands ==
    \/ \E v \in EnvValues : EnvChanged(v)
    \/ InferenceOf({1})
    \/ GetChatHistory
    \/ GetActiveAiQueries
    \/ \E cpu \in CpuReadings, mem \in MemReadings : GetPerformanceData(cpu, mem)

SpecCommands == Init /\ [][NextCommands]_vars

\* ---------------------------------------------------------------- claims

\* The statement's own reading of a response: a 2xx status.
Is2xx(r) == r.status \in 200..299

\* The statement's own reading of a body: an array whose element 0 is an
\* object with a string member generated_text.
HasTextAtZero(v) ==
    /\ v.t = "arr"
    /\ Len(v.a) >= 1
    /\ v.a[1].t = "obj"
    /\ "generated_text" \in DOMAIN v.a[1].o
    /\ v.a[1].o["generated_text"].t = "str"

\* Invocation i returned, and the upstream had answered its request.
ReturnedOnResponse(i) == pc[i] = "done" /\ upstream[i].kind = "response"

\* C1: an invocation that reads HF_TOKEN while it is absent returns the
\* configuration error and has sent no request, at no point of its run.
C1_AbsentTokenNoRequest ==
    \A i \in Tasks :
        envRead[i] = Absent =>
            /\ pc[i] = "done"
            /\ ~result[i].ok
            /\ result[i].err = <<"HF_TOKEN not set: ", "environment variable not found">>
            /\ sent[i] = 0
            /\ request[i] = NoRequest
            /\ upstream[i] = NoOutcome

C1_Witness ==
    \E i \in Tasks : \E j \in Tasks :
        /\ envRead[i] = Absent /\ pc[i] = "done" /\ message[i] = "yo"
        /\ pc[j] = "await"

\* C2: no invocation panics: whatever HF_TOKEN holds and whatever the
\* upstream does, an invocation ends by returning Ok or Err.
C2_NeverPanics == \A i \in Tasks : pc[i] # "panicked"

\* C3: a 2xx response whose body is an array with a string generated_text = s
\* in element 0 makes the invocation return Ok(s), whatever else the body holds.
C3_ReturnsGeneratedText ==
    \A i \in Tasks :
        (/\ ReturnedOnResponse(i)
         /\ Is2xx(upstream[i].resp)
         /\ upstream[i].resp.readable
         /\ HasTextAtZero(ParseJson(upstream[i].resp.body)))
        => /\ result[i].ok
           /\ result[i].val = ParseJson(upstream[i].resp.body).a[1].o["generated_text"].s
           /\ result[i].err = <<>>

C3_Witness ==
    \E i \in Tasks :
        /\ ReturnedOnResponse(i)
        /\ upstream[i].resp = Response(200, BodyExtra)
        /\ result[i] = Ok("hello")

\* C4: a 2xx response whose body is valid JSON without a string
\* generated_text in element 0 makes the invocation return the fixed
\* "Generated text not found" error, also when a later element has one.
C4_TextNotFound ==
    \A i \in Tasks :
        (/\ ReturnedOnResponse(i)
         /\ Is2xx(upstream[i].resp)
         /\ upstream[i].resp.readable
         /\ ParseJson(upstream[i].resp.body).t # "invalid"
         /\ ~HasTextAtZero(ParseJson(upstream[i].resp.body)))
        => /\ ~result[i].ok
           /\ result[i].err = <<"Generated text not found in response.">>

C4_Witness ==
    \E i \in Tasks :
        /\ ReturnedOnResponse(i)
        /\ upstream[i].resp = Response(200, BodySecond)
        /\ ~result[i].ok

\* C5: a non-2xx response makes the invocation return an error that holds the
\* status and the body text, never Ok; when the body cannot be read the error
\* is the one of that read.
C5_UpstreamError ==
    \A i \in Tasks :
        (ReturnedOnResponse(i) /\ ~Is2xx(upstream[i].resp))
        => /\ ~result[i].ok
           /\ upstream[i].resp.readable =>
                 /\ Contains(result[i].err, StatusText(upstream[i].resp.status))
                 /\ Contains(result[i].err, upstream[i].resp.body)
           /\ ~upstream[i].resp.readable =>
                 result[i].err[1] = "Failed to get error text: "

C5_Witness ==
    \E i \in Tasks : \E j \in Tasks :
        /\ ReturnedOnResponse(i)
        /\ upstream[i].resp = Response(500, BodyHello)
        /\ Contains(result[i].err, "500 Internal Server Error")
        /\ ReturnedOnResponse(j)
        /\ upstream[j].resp = Unreadable(500)

C7_TokenReadPerCall ==
    \A i \in Tasks :
        /\ (pc[i] \in {"build", "send", "await", "responded", "panicked"}
              => envRead[i].state = "set" /\ hf_token[i] = envRead[i].val)
        /\ (pc[i] = "await" => request[i].auth = <<"Bearer ">> \o envRead[i].val)
        /\ (pc[i] = "done" =>
              (envRead[i].state # "set" <=>
                  (~result[i].ok /\ Len(result[i].err) = 2
                   /\ result[i].err[1] = "HF_TOKEN not set: ")))

\* An earlier call succeeded with one token, the token was removed, a call
\* failed on it, and a third value is now in the environment.
C7_Witness ==
    \E i \in Tasks : \E j \in Tasks :
        /\ pc[i] = "done" /\ result[i].ok /\ envRead[i] = Present(TokA)
        /\ pc[j] = "done" /\ envRead[j] = Absent
        /\ env = Present(TokB)

\* What an invocation run alone returns for the token state e it reads and
\* the outcome o of its request.
Alone(e, o) ==
    IF e.state # "set" THEN Err(<<"HF_TOKEN not set: ", VarErrorText(e)>>)
    ELSE IF o.kind = "transport"
    THEN Err(<<"Failed to send request to Hugging Face API: ", "error sending request">>)
    ELSE HandleResponse(o.resp)

\* C8: under every interleaving an invocation sends its own message and
\* token, receives the answer to its own request, and returns what it would
\* return alone.
C8_Independent ==
    \A i \in Tasks :
        /\ pc[i] = "await" => request[i] = Request(envRead[i].val, message[i])
        /\ pc[i] = "responded" => upstream[i] = Answered(res[i])
        /\ pc[i] = "done" => result[i] = Alone(envRead[i], upstream[i])

C8_Witness ==
    \E i \in Tasks : \E j \in Tasks :
        /\ i # j
        /\ ReturnedOnResponse(i) /\ result[i].ok
        /\ ReturnedOnResponse(j) /\ ~result[j].ok
        /\ message[i] # message[j]
        /\ envRead[i] # envRead[j]

\* C9: whatever ran before, get_chat_history returns Ok with an empty
\* sequence and get_active_ai_queries returns Ok(5).
C9_StubsConstant ==
    /\ reply.cmd = "get_chat_history" => reply.ok /\ reply.history = <<>>
    /\ reply.cmd = "get_active_ai_queries" => reply.ok /\ reply.count = 5

C9_Witness ==
    /\ reply.cmd = "get_chat_history"
    /\ pc[1] = "done" /\ result[1].ok /\ message[1] = "hi"
    /\ sys.total_memory = MaxMem

\* C10: get_performance_data returns Ok with cpu_usage and memory_usage in
\* [0, 100], memory_usage being used/total x 100 of the counters it read.
C10_UsageInRange ==
    reply.cmd = "get_performance_data" =>
        /\ reply.ok
        /\ reply.cpu_usage \in 0..100
        /\ reply.memory_usage.kind = "num"
        /\ reply.memory_usage.den > 0
        /\ 0 <= reply.memory_usage.num
        /\ reply.memory_usage.num <= 100 * reply.memory_usage.den
        /\ reply.memory_usage.num * sys.total_memory
               = 100 * sys.used_memory * reply.memory_usage.den

====
